---- MODULE Spec2Model ----
(***************************************************************************)
(* Quiz session engine of project-nalar: the QuestionArena component       *)
(* (QuestionArena.tsx) driven either by App (App.tsx, gameState prop) or   *)
(* stand-alone (no gameState prop, as the component tests render it).      *)
(*                                                                         *)
(* React state is modelled in two layers.  `arena` / `gameState` hold the  *)
(* current value of every useState cell.  `rendered` /                     *)
(* `renderedGameState` hold the values of the last committed render: they  *)
(* are what the closures of that render (handleOptionClick, handleNext,    *)
(* the auto-advance timeout callback) read.  Functional updaters           *)
(* (setTimeRemaining(prev => ...), setIsAnswered(cur => ...)) read the     *)
(* current value.  A click handler is followed by a synchronous commit; a  *)
(* timer callback leaves the commit pending until the Render action, so a  *)
(* click that is already queued can run against the previous render.       *)
(*                                                                         *)
(* Time is counted in seconds: every pending timer holds the number of     *)
(* seconds left until it is due (-1: no timer).                            *)
(***************************************************************************)
EXTENDS Integers, Sequences, FiniteSets, TLC

\* ---- bounds -------------------------------------------------------------
NumQuestions == 2
NumOptions == 2
MaxSessions == 2
MaxCompleteCalls == 3
MaxDay == 1
MaxStartXP == 20
MaxTicks == 32
MaxDate == 4
MaxStreak == 4
MaxRankScore == 100

\* ---- program constants --------------------------------------------------
QuestionTime == 30
PointsPerCorrect == 20
TickInterval == 1
ToastDelay == 1
TimeoutAdvanceDelay == 4
AnsweredAdvanceDelay == 0

NoOption == "null"
NoTimer == -1
FirstDay == 0
NoRecord == << >>
NoRank == "none"
NoTree == "none"
MsPerDay == 1000 * 60 * 60 * 24

OptionNames == <<"A", "B", "C", "D", "E", "F">>
OptionIds == {OptionNames[i] : i \in 1..NumOptions}

\* questions[i].correctId of the question list handed to the component
correctId(i) == OptionNames[(i % NumOptions) + 1]

VARIABLES
  mode,               \* "app": rendered by App with gameState; "standalone": no gameState prop
  gameState,          \* App: useState<GameState>  ("undefined" when stand-alone)
  renderedGameState,  \* gameState of the committed render (which tree is on screen)
  arena,              \* QuestionArena: current value of its useState cells
  rendered,           \* QuestionArena: values captured by the committed render's closures
  intervalDue,        \* seconds until the setInterval callback is due
  toastDue,           \* seconds until the toast setTimeout is due
  advanceDue,         \* seconds until the auto-advance setTimeout is due
  onCompleteCalls,    \* number of onComplete invocations in the current session
  lastComplete,       \* arguments of the last onComplete invocation
  answeredCorrectly,  \* questions of this session on which a selection of the correct option was accepted
  timedOut,           \* questions of this session whose countdown expired while they were unanswered
  sessions,           \* number of sessions started so far
  lastEvent,          \* the handler or callback that ran last
  stored,             \* localStorage: <<text>> under STORAGE_KEY, or NoRecord
  progress,           \* App: current value of userXP, highScore, currentStreak
  renderedProgress,   \* App: the values captured by the committed render's handlers
  today,              \* the calendar day (UTC) of the system clock
  ticks,              \* timer study: interval callbacks applied since the start time
  questions,          \* App: useState<QuestionData[]> (the questions prop when stand-alone): origin and length of the list
  isLoadingQuestions, \* App: useState(true); true exactly while a fetch is awaited
  usingFallbackData,  \* App: useState(false)
  finalScore,         \* App: useState<number>(0), the score shown in FINISHED
  finalAccuracy,      \* App: useState<number>(0), in hundredths of a percent
  rank                \* the rank badge of the summary card on screen (NoRank: no summary card)

vars == <<mode, gameState, renderedGameState, arena, rendered, intervalDue,
          toastDue, advanceDue, onCompleteCalls, lastComplete,
          answeredCorrectly, timedOut, sessions, lastEvent,
          stored, progress, renderedProgress, today, ticks,
          questions, isLoadingQuestions, usingFallbackData,
          finalScore, finalAccuracy, rank>>

listVars == <<questions, usingFallbackData>>
finalVars == <<finalScore, finalAccuracy>>
shownVars == <<isLoadingQuestions, finalScore, finalAccuracy, rank>>

\* useState(true) / useState([]) of App, and the list a stand-alone caller passes
NoQuestions == [source |-> "none", length |-> 0]
propQuestions == [source |-> "prop", length |-> NumQuestions]

\* data of a successful fetchQuestionsFromSupabase() with n rows in the table
supabaseQuestions(n) == [source |-> "supabase", length |-> n]

\* mockQuestions of mockData.ts, the fallback list
mockQuestions == [source |-> "mockData", length |-> NumQuestions]

\* useState initial values of QuestionArena
ArenaInit ==
  [ currentQuestionIndex |-> 0,
    score |-> 0,
    streak |-> 0,
    correctAnswers |-> 0,
    internalIsComplete |-> FALSE,
    selectedOption |-> NoOption,
    timeRemaining |-> QuestionTime,
    isAnswered |-> FALSE,
    showTimeoutToast |-> FALSE,
    shouldAutoAdvance |-> FALSE ]

NoComplete == [score |-> -1, accuracy |-> -1]

\* (correctAnswers / questions.length) * 100, kept in hundredths of a percent
accuracyOf(correct) == (correct * 10000) \div questions.length

\* ---- handlers as functions of (current state, closure of the render) ----

\* variant: the selection handler without its isAnswered guard
handleOptionClickNoGuard(a, r, optionId) ==
  IF optionId = correctId(r.currentQuestionIndex)
  THEN [a EXCEPT !.selectedOption = optionId, !.isAnswered = TRUE,
                 !.score = r.score + PointsPerCorrect,
                 !.correctAnswers = r.correctAnswers + 1,
                 !.streak = r.streak + 1]
  ELSE [a EXCEPT !.selectedOption = optionId, !.isAnswered = TRUE, !.streak = 0]

\* variant: a wrong selection keeps the streak
handleOptionClickKeepStreak(a, r, optionId) ==
  IF r.isAnswered THEN a
  ELSE IF optionId = correctId(r.currentQuestionIndex)
       THEN [a EXCEPT !.selectedOption = optionId, !.isAnswered = TRUE,
                      !.score = r.score + PointsPerCorrect,
                      !.correctAnswers = r.correctAnswers + 1,
                      !.streak = r.streak + 1]
       ELSE [a EXCEPT !.selectedOption = optionId, !.isAnswered = TRUE]

\* variant: a selection restarts the countdown
handleOptionClickRestartsTimer(a, r, optionId) ==
  IF r.isAnswered THEN a
  ELSE IF optionId = correctId(r.currentQuestionIndex)
       THEN [a EXCEPT !.selectedOption = optionId, !.isAnswered = TRUE,
                      !.score = r.score + PointsPerCorrect,
                      !.correctAnswers = r.correctAnswers + 1,
                      !.streak = r.streak + 1,
                      !.timeRemaining = QuestionTime]
       ELSE [a EXCEPT !.selectedOption = optionId, !.isAnswered = TRUE,
                      !.streak = 0, !.timeRemaining = QuestionTime]

\* variant: a correct selection on a streak earns the points twice
handleOptionClickStreakBonus(a, r, optionId) ==
  IF r.isAnswered THEN a
  ELSE IF optionId = correctId(r.currentQuestionIndex)
       THEN [a EXCEPT !.selectedOption = optionId, !.isAnswered = TRUE,
                      !.score = r.score + (IF r.streak > 0
                                           THEN 2 * PointsPerCorrect
                                           ELSE PointsPerCorrect),
                      !.correctAnswers = r.correctAnswers + 1,
                      !.streak = r.streak + 1]
       ELSE [a EXCEPT !.selectedOption = optionId, !.isAnswered = TRUE,
                      !.streak = 0]

\* variant: a wrong selection counts towards the streak
handleOptionClickStreakOnWrong(a, r, optionId) ==
  IF r.isAnswered THEN a
  ELSE IF optionId = correctId(r.currentQuestionIndex)
       THEN [a EXCEPT !.selectedOption = optionId, !.isAnswered = TRUE,
                      !.score = r.score + PointsPerCorrect,
                      !.correctAnswers = r.correctAnswers + 1,
                      !.streak = r.streak + 1]
       ELSE [a EXCEPT !.selectedOption = optionId, !.isAnswered = TRUE,
                      !.streak = r.streak + 1]

\* handleOptionClick(optionId)
handleOptionClick(a, r, optionId) ==
  IF r.isAnswered THEN a
  ELSE IF optionId = correctId(r.currentQuestionIndex)
       THEN [a EXCEPT !.selectedOption = optionId,
                      !.isAnswered = TRUE,
                      !.score = r.score + PointsPerCorrect,
                      !.correctAnswers = r.correctAnswers + 1,
                      !.streak = r.streak + 1]
       ELSE [a EXCEPT !.selectedOption = optionId,
                      !.isAnswered = TRUE,
                      !.streak = 0]

\* variant: an unanswered expiry keeps the streak
timerTickKeepStreak(a) ==
  IF a.timeRemaining <= 0 THEN [a EXCEPT !.timeRemaining = 0]
  ELSE IF a.timeRemaining = 1
       THEN IF ~a.isAnswered
            THEN [a EXCEPT !.timeRemaining = 0, !.showTimeoutToast = TRUE,
                           !.isAnswered = TRUE]
            ELSE [a EXCEPT !.timeRemaining = 0, !.shouldAutoAdvance = TRUE]
       ELSE [a EXCEPT !.timeRemaining = @ - 1]

\* variant: an expiry after an answer requests no automatic advance
timerTickNoAutoAdvance(a) ==
  IF a.timeRemaining <= 0 THEN [a EXCEPT !.timeRemaining = 0]
  ELSE IF a.timeRemaining = 1
       THEN IF ~a.isAnswered
            THEN [a EXCEPT !.timeRemaining = 0, !.streak = 0,
                           !.showTimeoutToast = TRUE, !.isAnswered = TRUE]
            ELSE [a EXCEPT !.timeRemaining = 0]
       ELSE [a EXCEPT !.timeRemaining = @ - 1]

\* variant: every expiry resets the streak (an earlier revision of the timer)
timerTickAlwaysPenalty(a) ==
  IF a.timeRemaining <= 0 THEN [a EXCEPT !.timeRemaining = 0]
  ELSE IF a.timeRemaining = 1
       THEN IF ~a.isAnswered
            THEN [a EXCEPT !.timeRemaining = 0, !.streak = 0,
                           !.showTimeoutToast = TRUE, !.isAnswered = TRUE]
            ELSE [a EXCEPT !.timeRemaining = 0, !.streak = 0,
                           !.shouldAutoAdvance = TRUE]
       ELSE [a EXCEPT !.timeRemaining = @ - 1]

\* variant: an expiry after an answer reopens the question
timerTickClearsAnswered(a) ==
  IF a.timeRemaining <= 0 THEN [a EXCEPT !.timeRemaining = 0]
  ELSE IF a.timeRemaining = 1
       THEN IF ~a.isAnswered
            THEN [a EXCEPT !.timeRemaining = 0, !.streak = 0,
                           !.showTimeoutToast = TRUE, !.isAnswered = TRUE]
            ELSE [a EXCEPT !.timeRemaining = 0, !.shouldAutoAdvance = TRUE,
                           !.isAnswered = FALSE]
       ELSE [a EXCEPT !.timeRemaining = @ - 1]

\* variant: the countdown is not held at 0
timerTickNoClamp(a) ==
  IF a.timeRemaining = 1
  THEN IF ~a.isAnswered
       THEN [a EXCEPT !.timeRemaining = 0, !.streak = 0,
                      !.showTimeoutToast = TRUE, !.isAnswered = TRUE]
       ELSE [a EXCEPT !.timeRemaining = 0, !.shouldAutoAdvance = TRUE]
  ELSE [a EXCEPT !.timeRemaining = @ - 1]

\* the setInterval callback: setTimeRemaining(prevTime => ...)
timerTick(a) ==
  IF a.timeRemaining <= 0 THEN [a EXCEPT !.timeRemaining = 0]
  ELSE IF a.timeRemaining = 1
       THEN IF ~a.isAnswered
            THEN [a EXCEPT !.timeRemaining = 0,
                           !.streak = 0,
                           !.showTimeoutToast = TRUE,
                           !.isAnswered = TRUE]
            ELSE [a EXCEPT !.timeRemaining = 0,
                           !.shouldAutoAdvance = TRUE]
       ELSE [a EXCEPT !.timeRemaining = @ - 1]

\* variant: hiding the toast requests no automatic advance
toastTimeoutNoAdvance(a) == [a EXCEPT !.showTimeoutToast = FALSE]

\* the toast setTimeout callback
toastTimeout(a) ==
  [a EXCEPT !.showTimeoutToast = FALSE, !.shouldAutoAdvance = TRUE]

\* does the closure r stand on the last question
isLastQuestion(r) == r.currentQuestionIndex = questions.length - 1

\* result of a callback that did not invoke onComplete
NotCompleted(a) == [arena |-> a, completed |-> FALSE, score |-> -1, accuracy |-> -1]

\* result of a callback that invoked onComplete(score, accuracy)
Completed(a, score, correct) ==
  [arena |-> [a EXCEPT !.internalIsComplete = TRUE], completed |-> TRUE,
   score |-> score, accuracy |-> accuracyOf(correct)]

\* variant: the automatic advance stops at the last question
autoAdvanceStopsAtLast(a, r) ==
  IF isLastQuestion(r)
  THEN NotCompleted(a)
  ELSE NotCompleted([a EXCEPT !.currentQuestionIndex = r.currentQuestionIndex + 1,
                              !.selectedOption = NoOption,
                              !.isAnswered = FALSE,
                              !.shouldAutoAdvance = FALSE,
                              !.timeRemaining = QuestionTime])

\* the auto-advance setTimeout callback
autoAdvance(a, r) ==
  IF isLastQuestion(r)
  THEN Completed(a, r.score, r.correctAnswers)
  ELSE NotCompleted([a EXCEPT !.currentQuestionIndex = r.currentQuestionIndex + 1,
                              !.selectedOption = NoOption,
                              !.isAnswered = FALSE,
                              !.shouldAutoAdvance = FALSE,
                              !.timeRemaining = QuestionTime])

\* variant: Next skips a question
handleNextSkips(a, r) ==
  IF ~r.isAnswered THEN NotCompleted(a)
  ELSE IF isLastQuestion(r)
       THEN Completed(a, r.score, r.correctAnswers)
       ELSE NotCompleted([a EXCEPT !.currentQuestionIndex = r.currentQuestionIndex + 2,
                                   !.selectedOption = NoOption,
                                   !.isAnswered = FALSE,
                                   !.timeRemaining = QuestionTime])

\* variant: Next does not restart the countdown
handleNextKeepTimer(a, r) ==
  IF ~r.isAnswered THEN NotCompleted(a)
  ELSE IF isLastQuestion(r)
       THEN Completed(a, r.score, r.correctAnswers)
       ELSE NotCompleted([a EXCEPT !.currentQuestionIndex = r.currentQuestionIndex + 1,
                                   !.selectedOption = NoOption,
                                   !.isAnswered = FALSE])

\* handleNext
handleNext(a, r) ==
  IF ~r.isAnswered THEN NotCompleted(a)
  ELSE IF isLastQuestion(r)
       THEN Completed(a, r.score, r.correctAnswers)
       ELSE NotCompleted([a EXCEPT !.currentQuestionIndex = r.currentQuestionIndex + 1,
                                   !.selectedOption = NoOption,
                                   !.isAnswered = FALSE,
                                   !.timeRemaining = QuestionTime])

\* handleTryAgain without onTryAgain (stand-alone reset)
standaloneTryAgain(a) ==
  [a EXCEPT !.score = 0, !.streak = 0, !.correctAnswers = 0,
            !.currentQuestionIndex = 0, !.internalIsComplete = FALSE,
            !.selectedOption = NoOption, !.isAnswered = FALSE,
            !.timeRemaining = QuestionTime, !.showTimeoutToast = FALSE]

\* ---- render and effects -------------------------------------------------

\* delay chosen by the auto-advance effect
advanceDelay(a) ==
  IF a.selectedOption = NoOption THEN TimeoutAdvanceDelay ELSE AnsweredAdvanceDelay

\* does the auto-advance effect run again at the commit of a over r:
\* a dependency changed, or (under App) App rendered again and passed a new
\* onComplete closure, which it does whenever a value it mirrors changed
advanceEffectReruns(a, r) ==
  \/ a.shouldAutoAdvance # r.shouldAutoAdvance
  \/ a.selectedOption # r.selectedOption
  \/ a.currentQuestionIndex # r.currentQuestionIndex
  \/ a.correctAnswers # r.correctAnswers
  \/ a.score # r.score
  \/ /\ mode = "app"
     /\ \/ a.streak # r.streak
        \/ a.isAnswered # r.isAnswered

\* the tree on screen holds the playing QuestionArena
arenaPlaying == IF mode = "app" THEN renderedGameState = "PLAYING" ELSE TRUE

\* option buttons are on screen
optionsShown ==
  IF mode = "app" THEN renderedGameState = "PLAYING" ELSE ~rendered.internalIsComplete

\* a commit is pending
renderPending ==
  arena # rendered \/ gameState # renderedGameState \/ progress # renderedProgress

\* variant: a score of 50 is still a Cadet
calculateRankLate(score) ==
  IF score <= 50 THEN "Cadet Logika"
  ELSE IF score <= 80 THEN "Captain Nalar"
       ELSE "Grandmaster"

\* calculateRank(score)
calculateRank(score) ==
  IF score < 50 THEN "Cadet Logika"
  ELSE IF score <= 80 THEN "Captain Nalar"
       ELSE "Grandmaster"

\* shouldShowSummary of the render of (a, gs)
shouldShowSummary(a, gs) == gs = "FINISHED" \/ a.internalIsComplete

\* displayScore: the finalScore prop when App passes it (FINISHED tree), the
\* component's own score otherwise
displayScore(a, gs, propFinalScore) ==
  IF mode = "app" /\ gs = "FINISHED" THEN propFinalScore ELSE a.score

\* React commit of the pending state (a, gs): render, unmount/mount, effects;
\* finalScore' is the finalScore App holds at this commit
CommitTo(a, gs) ==
  /\ gameState' = gs
  /\ renderedGameState' = gs
  /\ rank' = IF shouldShowSummary(a, gs)
             THEN calculateRank(displayScore(a, gs, finalScore'))
             ELSE NoRank
  /\ IF mode = "app" /\ gs # renderedGameState
     THEN \* App switches tree: the old QuestionArena unmounts (every effect
          \* cleanup runs), a new instance mounts with initial state
          /\ arena' = ArenaInit
          /\ rendered' = ArenaInit
          /\ intervalDue' = IF gs = "PLAYING" THEN TickInterval ELSE NoTimer
          /\ toastDue' = NoTimer
          /\ advanceDue' = NoTimer
     ELSE /\ arena' = a
          /\ rendered' = a
          /\ intervalDue' = intervalDue
          /\ toastDue' = IF a.showTimeoutToast # rendered.showTimeoutToast
                         THEN (IF a.showTimeoutToast THEN ToastDelay ELSE NoTimer)
                         ELSE toastDue
          /\ advanceDue' = IF advanceEffectReruns(a, rendered)
                           THEN (IF a.shouldAutoAdvance THEN advanceDelay(a) ELSE NoTimer)
                           ELSE advanceDue

\* onComplete(score, accuracy): App's handleComplete, or the caller's callback
onCompleteGameState == IF mode = "app" THEN "FINISHED" ELSE gameState

\* ---- App: persisted progress --------------------------------------------

\* DEFAULT_USER_PROGRESS; its lastPlayedDate is the day the module was loaded
DEFAULT_USER_PROGRESS ==
  [userXP |-> 0, highScore |-> 0, currentStreak |-> 0, lastPlayedDate |-> FirstDay]

\* JSON values as localStorage holds them: a number, a string, a missing
\* property
Num(n) == [type |-> "number", value |-> n]
Str(v) == [type |-> "string", value |-> v]
Undefined == [type |-> "undefined", value |-> 0]

\* a stored text that is no object with properties: kind is "unparsable"
\* (JSON.parse throws), "null" or "primitive"
JSONText(kind) ==
  [kind |-> kind, userXP |-> Undefined, highScore |-> Undefined,
   currentStreak |-> Undefined, lastPlayedDate |-> Undefined]

\* JSON.stringify(progress)
stringify(record) ==
  [kind |-> "object", userXP |-> Num(record.userXP),
   highScore |-> Num(record.highScore),
   currentStreak |-> Num(record.currentStreak),
   lastPlayedDate |-> Str(record.lastPlayedDate)]

\* the validation of loadUserProgress: typeof parsed === 'object' and the
\* typeof of the four properties
isValidProgress(parsed) ==
  /\ parsed.kind = "object"
  /\ parsed.userXP.type = "number"
  /\ parsed.highScore.type = "number"
  /\ parsed.currentStreak.type = "number"
  /\ parsed.lastPlayedDate.type = "string"

\* loadUserProgress(): the stored record when it parses and has the four
\* properties with their types; DEFAULT_USER_PROGRESS when nothing is stored,
\* when JSON.parse throws, when the text is "null" (typeof null is 'object',
\* reading parsed.userXP throws, the catch block logs) and when the
\* validation fails
loadUserProgress ==
  IF stored = NoRecord THEN DEFAULT_USER_PROGRESS
  ELSE LET parsed == stored[1] IN
       IF parsed.kind \in {"unparsable", "null"} THEN DEFAULT_USER_PROGRESS
       ELSE IF isValidProgress(parsed)
            THEN [userXP |-> parsed.userXP.value,
                  highScore |-> parsed.highScore.value,
                  currentStreak |-> parsed.currentStreak.value,
                  lastPlayedDate |-> parsed.lastPlayedDate.value]
            ELSE DEFAULT_USER_PROGRESS

\* saveUserProgress(progress): what localStorage holds afterwards
saveUserProgress(record) == <<stringify(record)>>

\* saveUserProgress(progress) when localStorage.setItem throws (quota
\* exceeded, storage disabled): the catch block logs, localStorage keeps what
\* it held
saveUserProgressFailing(record) == stored

\* new Date("YYYY-MM-DD").getTime(): midnight UTC of that day, in milliseconds
getTime(date) == date * MsPerDay

\* variant: any later day continues the streak
calculateStreakAnyGap(lastPlayedDate, currentStreak) ==
  LET diffTime == getTime(today) - getTime(lastPlayedDate)
      diffDays == diffTime \div MsPerDay
  IN  IF lastPlayedDate = today THEN currentStreak
      ELSE IF diffDays >= 1 THEN currentStreak + 1
           ELSE 1

\* calculateStreak(lastPlayedDate, currentStreak); a date string is the number
\* of its day, diffDays is Math.floor(diffTime / (1000 * 60 * 60 * 24))
calculateStreak(lastPlayedDate, currentStreak) ==
  LET diffTime == getTime(today) - getTime(lastPlayedDate)
      diffDays == diffTime \div MsPerDay
  IN  IF lastPlayedDate = today THEN currentStreak
      ELSE IF diffDays = 1 THEN currentStreak + 1
           ELSE 1

\* variant: the session's score replaces the high score
completedProgressLastScore(score) ==
  [userXP |-> renderedProgress.userXP + score,
   highScore |-> score,
   currentStreak |-> calculateStreak(loadUserProgress.lastPlayedDate,
                                     loadUserProgress.currentStreak),
   lastPlayedDate |-> today]

\* the record handleComplete(score, accuracy) passes to saveUserProgress
completedProgress(score) ==
  [userXP |-> renderedProgress.userXP + score,
   highScore |-> IF score > renderedProgress.highScore
                 THEN score ELSE renderedProgress.highScore,
   currentStreak |-> calculateStreak(loadUserProgress.lastPlayedDate,
                                     loadUserProgress.currentStreak),
   lastPlayedDate |-> today]

\* variant: a quit stamps the record with today's date
quitProgressStampsDate(currentScore) ==
  [loadUserProgress EXCEPT !.userXP = renderedProgress.userXP + currentScore,
                           !.lastPlayedDate = today]

\* variant: a quit stores the session's score in place of the total
quitProgressReplacesXP(currentScore) ==
  [loadUserProgress EXCEPT !.userXP = currentScore]

\* the record handleQuit(currentScore) passes to saveUserProgress
quitProgress(currentScore) ==
  [loadUserProgress EXCEPT !.userXP = renderedProgress.userXP + currentScore]

\* App state after setUserXP, setHighScore, setCurrentStreak
stateOf(record) ==
  [userXP |-> record.userXP, highScore |-> record.highScore,
   currentStreak |-> record.currentStreak]

\* App's currentScore: the score QuestionArena reported through onScoreChange
\* when it last committed
currentScore == rendered.score

\* variant: a save that fails aborts handleComplete before it sets its state
handleCompleteSavingThrows(score, accuracy, saves) ==
  IF mode = "app"
  THEN /\ finalScore' = score
       /\ finalAccuracy' = accuracy
       /\ stored' = IF saves THEN saveUserProgress(completedProgress(score))
                    ELSE saveUserProgressFailing(completedProgress(score))
       /\ progress' = IF saves THEN stateOf(completedProgress(score))
                      ELSE progress
  ELSE UNCHANGED <<finalVars, stored, progress>>

\* onComplete(score, accuracy) as the caller sees it: App's handleComplete
\* saves the progress (saves: localStorage.setItem succeeds) and sets its
\* state; a stand-alone caller keeps none
handleCompleteSaving(score, accuracy, saves) ==
  IF mode = "app"
  THEN /\ finalScore' = score
       /\ finalAccuracy' = accuracy
       /\ stored' = IF saves THEN saveUserProgress(completedProgress(score))
                    ELSE saveUserProgressFailing(completedProgress(score))
       /\ progress' = stateOf(completedProgress(score))
  ELSE UNCHANGED <<finalVars, stored, progress>>

\* handleComplete with a localStorage that accepts the record
handleComplete(score, accuracy) == handleCompleteSaving(score, accuracy, TRUE)

Init ==
  /\ mode \in {"app", "standalone"}
  /\ gameState = IF mode = "app" THEN "IDLE" ELSE "undefined"
  /\ renderedGameState = gameState
  /\ arena = ArenaInit
  /\ rendered = ArenaInit
  /\ intervalDue = IF mode = "app" THEN NoTimer ELSE TickInterval
  /\ toastDue = NoTimer
  /\ advanceDue = NoTimer
  /\ onCompleteCalls = 0
  /\ lastComplete = NoComplete
  /\ answeredCorrectly = {}
  /\ timedOut = {}
  /\ sessions = IF mode = "app" THEN 0 ELSE 1
  /\ lastEvent = "init"
  /\ stored = NoRecord
  /\ progress = stateOf(DEFAULT_USER_PROGRESS)
  /\ renderedProgress = progress
  /\ today = FirstDay
  /\ ticks = 0
  /\ questions = IF mode = "app" THEN NoQuestions ELSE propQuestions
  /\ isLoadingQuestions = (mode = "app")
  /\ usingFallbackData = FALSE
  /\ finalScore = 0
  /\ finalAccuracy = 0
  /\ rank = NoRank

\* ---- events -------------------------------------------------------------

ghostVars == <<onCompleteCalls, lastComplete, answeredCorrectly, timedOut, sessions>>
timerVars == <<intervalDue, toastDue, advanceDue>>
appVars == <<stored, progress, renderedProgress, today>>

\* invocation of the onComplete prop with (score, accuracy); the call counter
\* saturates at MaxCompleteCalls
RecordComplete(score, acc) ==
  /\ onCompleteCalls' = IF onCompleteCalls < MaxCompleteCalls
                        THEN onCompleteCalls + 1 ELSE onCompleteCalls
  /\ lastComplete' = [score |-> score, accuracy |-> acc]

\* click on an option button: handleOptionClick, then the synchronous commit
\* of whatever it set; a handler that returned early schedules no render
OptionClick ==
  /\ optionsShown
  /\ \E optionId \in OptionIds :
       LET a2 == handleOptionClick(arena, rendered, optionId) IN
       IF a2 = arena
       THEN /\ lastEvent' = "selectIgnored"
            /\ UNCHANGED <<mode, listVars, gameState, renderedGameState, arena, rendered,
                           timerVars, ghostVars, appVars, ticks, shownVars>>
       ELSE /\ UNCHANGED <<finalVars, isLoadingQuestions>>
            /\ CommitTo(a2, gameState)
            /\ answeredCorrectly' =
                 IF optionId = correctId(rendered.currentQuestionIndex)
                 THEN answeredCorrectly \cup {rendered.currentQuestionIndex}
                 ELSE answeredCorrectly
            /\ lastEvent' = "select"
            /\ renderedProgress' = progress
            /\ UNCHANGED <<mode, listVars, onCompleteCalls, lastComplete, timedOut, sessions,
                           stored, progress, today, ticks>>

\* click on the Next button: handleNext through the renderNextButton handle
NextClickSaving(saves) ==
  /\ arenaPlaying
  /\ LET res == handleNext(arena, rendered) IN
     IF res.completed
     THEN /\ RecordComplete(res.score, res.accuracy)
          /\ handleCompleteSaving(res.score, res.accuracy, saves)
          /\ renderedProgress' = progress'
          /\ CommitTo(res.arena, onCompleteGameState)
          /\ lastEvent' = "nextComplete"
          /\ UNCHANGED isLoadingQuestions
          /\ UNCHANGED <<mode, listVars, answeredCorrectly, timedOut, sessions, today, ticks>>
     ELSE IF res.arena = arena
          THEN /\ lastEvent' = "nextIgnored"
               /\ UNCHANGED <<mode, listVars, gameState, renderedGameState, arena, rendered,
                              timerVars, ghostVars, appVars, ticks, shownVars>>
          ELSE /\ UNCHANGED <<finalVars, isLoadingQuestions>>
               /\ CommitTo(res.arena, gameState)
               /\ lastEvent' = "next"
               /\ renderedProgress' = progress
               /\ UNCHANGED <<mode, listVars, ghostVars, stored, progress, today, ticks>>

NextClick == NextClickSaving(TRUE)

\* variant: the START button is never disabled
startDisabledNever == FALSE

\* variant: the START button is disabled only while there is no list
startDisabledWhileEmpty == questions.length = 0

\* disabled={isLoadingQuestions} of the START button
startDisabled == isLoadingQuestions

\* App: handleStartQuiz (START button of the lobby)
StartQuiz ==
  /\ mode = "app"
  /\ renderedGameState = "IDLE"
  /\ sessions < MaxSessions
  /\ renderedProgress.userXP <= MaxStartXP
  /\ ~startDisabled
  /\ UNCHANGED <<finalVars, isLoadingQuestions>>
  /\ IF questions.length = 0
     THEN \* the first render of QuestionArena reads questionData.id of
          \* questions[0] === undefined and throws; without an error boundary
          \* React unmounts the whole tree
          /\ gameState' = "PLAYING"
          /\ renderedGameState' = NoTree
          /\ rank' = NoRank
          /\ UNCHANGED <<arena, rendered, timerVars>>
     ELSE CommitTo(arena, "PLAYING")
  /\ sessions' = sessions + 1
  /\ onCompleteCalls' = 0
  /\ lastComplete' = NoComplete
  /\ answeredCorrectly' = {}
  /\ timedOut' = {}
  /\ lastEvent' = "start"
  /\ renderedProgress' = progress
  /\ UNCHANGED <<mode, listVars, stored, progress, today, ticks>>

\* App: handleQuit (Quit button of the playing header)
QuitSaving(saves) ==
  /\ mode = "app"
  /\ renderedGameState = "PLAYING"
  /\ stored' = IF saves THEN saveUserProgress(quitProgress(currentScore))
               ELSE saveUserProgressFailing(quitProgress(currentScore))
  /\ progress' = [progress EXCEPT !.userXP = quitProgress(currentScore).userXP]
  /\ renderedProgress' = progress'
  /\ UNCHANGED finalVars
  /\ CommitTo(arena, "IDLE")
  /\ isLoadingQuestions' = TRUE
  /\ lastEvent' = "quit"
  /\ UNCHANGED <<mode, listVars, ghostVars, today, ticks>>

Quit == QuitSaving(TRUE)

\* Play Again button of the summary card: handleTryAgain
TryAgain ==
  /\ UNCHANGED finalVars
  /\ IF mode = "app"
     THEN /\ renderedGameState = "FINISHED"
          /\ CommitTo(arena, "IDLE")
          /\ isLoadingQuestions' = TRUE
          /\ UNCHANGED ghostVars
     ELSE /\ rendered.internalIsComplete
          /\ sessions < MaxSessions
          /\ CommitTo(standaloneTryAgain(arena), gameState)
          /\ UNCHANGED isLoadingQuestions
          /\ sessions' = sessions + 1
          /\ onCompleteCalls' = 0
          /\ lastComplete' = NoComplete
          /\ answeredCorrectly' = {}
          /\ timedOut' = {}
  /\ lastEvent' = "tryAgain"
  /\ renderedProgress' = progress
  /\ UNCHANGED <<mode, listVars, stored, progress, today, ticks>>

\* the setInterval callback fires
Tick ==
  /\ intervalDue = 0
  /\ arena' = timerTick(arena)
  /\ intervalDue' = TickInterval
  /\ lastEvent' = IF arena.timeRemaining = 1 THEN "expiry" ELSE "tick"
  /\ timedOut' = IF arena.timeRemaining = 1 /\ ~arena.isAnswered
                 THEN timedOut \cup {arena.currentQuestionIndex}
                 ELSE timedOut
  /\ UNCHANGED <<mode, listVars, gameState, renderedGameState, rendered, toastDue,
                 advanceDue, onCompleteCalls, lastComplete, answeredCorrectly,
                 sessions, appVars, ticks, shownVars>>

\* the toast setTimeout callback fires
ToastTimeout ==
  /\ toastDue = 0
  /\ arena' = toastTimeout(arena)
  /\ toastDue' = NoTimer
  /\ lastEvent' = "toastTimeout"
  /\ UNCHANGED <<mode, listVars, gameState, renderedGameState, rendered, intervalDue,
                 advanceDue, ghostVars, appVars, ticks, shownVars>>

\* the auto-advance setTimeout callback fires
AdvanceTimeoutSaving(saves) ==
  /\ advanceDue = 0
  /\ LET res == autoAdvance(arena, rendered) IN
     /\ arena' = res.arena
     /\ IF res.completed
        THEN /\ RecordComplete(res.score, res.accuracy)
             /\ handleCompleteSaving(res.score, res.accuracy, saves)
             /\ gameState' = onCompleteGameState
             /\ lastEvent' = "autoComplete"
        ELSE /\ lastEvent' = "autoAdvance"
             /\ UNCHANGED <<gameState, onCompleteCalls, lastComplete, stored,
                            progress, finalVars>>
  /\ advanceDue' = NoTimer
  /\ UNCHANGED <<mode, listVars, renderedGameState, rendered, intervalDue, toastDue,
                 answeredCorrectly, timedOut, sessions, renderedProgress,
                 today, ticks, isLoadingQuestions, rank>>

AdvanceTimeout == AdvanceTimeoutSaving(TRUE)

\* React renders the updates a timer callback left pending
Render ==
  /\ renderPending
  /\ renderedGameState # NoTree
  /\ UNCHANGED <<finalVars, isLoadingQuestions>>
  /\ CommitTo(arena, gameState)
  /\ renderedProgress' = progress
  /\ lastEvent' = "render"
  /\ UNCHANGED <<mode, listVars, ghostVars, stored, progress, today, ticks>>

\* one second passes: no callback is due and no render is pending
Elapse ==
  /\ ~renderPending
  /\ intervalDue # 0 /\ toastDue # 0 /\ advanceDue # 0
  /\ intervalDue > 0 \/ toastDue > 0 \/ advanceDue > 0
  /\ intervalDue' = IF intervalDue > 0 THEN intervalDue - 1 ELSE intervalDue
  /\ toastDue' = IF toastDue > 0 THEN toastDue - 1 ELSE toastDue
  /\ advanceDue' = IF advanceDue > 0 THEN advanceDue - 1 ELSE advanceDue
  /\ lastEvent' = "elapse"
  /\ UNCHANGED <<mode, listVars, gameState, renderedGameState, arena, rendered, ghostVars,
                 appVars, ticks, shownVars>>

\* the promise of fetchQuestionsFromSupabase() settles and loadQuestions
\* resumes: setQuestions, setUsingFallbackData, setIsLoadingQuestions(false)
FetchSettles(list, fallback, event) ==
  /\ mode = "app"
  /\ isLoadingQuestions
  /\ questions' = list
  /\ usingFallbackData' = fallback
  /\ isLoadingQuestions' = FALSE
  /\ lastEvent' = event
  /\ UNCHANGED <<mode, gameState, renderedGameState, arena, rendered, timerVars,
                 ghostVars, appVars, ticks, finalVars, rank>>

\* the fetch returns rows of the questions table
FetchSucceeds == FetchSettles(supabaseQuestions(NumQuestions), FALSE, "fetched")

\* the fetch returns no row (empty table, or data === null)
FetchEmpty == FetchSettles(supabaseQuestions(0), FALSE, "fetchedEmpty")

\* the fetch throws (Supabase not configured, or an error of the query)
FetchFails == FetchSettles(mockQuestions, TRUE, "fetchFailed")

Next ==
  \/ FetchSucceeds
  \/ OptionClick
  \/ NextClick
  \/ StartQuiz
  \/ Quit
  \/ TryAgain
  \/ Tick
  \/ ToastTimeout
  \/ AdvanceTimeout
  \/ Render
  \/ Elapse

Spec == Init /\ [][Next]_vars

\* midnight (UTC) passes while the lobby is shown; the date is read only by
\* handleComplete
NextDay ==
  /\ mode = "app"
  /\ renderedGameState = "IDLE"
  /\ ~renderPending
  /\ today < MaxDay
  /\ today' = today + 1
  /\ lastEvent' = "nextDay"
  /\ UNCHANGED <<mode, listVars, gameState, renderedGameState, arena, rendered, timerVars,
                 ghostVars, stored, progress, renderedProgress, ticks, shownVars>>

CalendarNext ==
  \/ Next
  \/ NextDay

\* the program with days passing between sessions
CalendarSpec == Init /\ [][CalendarNext]_vars

LobbyNext ==
  \/ Next
  \/ FetchEmpty
  \/ FetchFails

\* the program with a question backend that may fail or hold no question
LobbySpec == Init /\ [][LobbyNext]_vars

\* ---- a localStorage that may refuse to store ------------------------------

\* the Next click that completes the session, with setItem throwing
NextClickSaveFails ==
  /\ mode = "app"
  /\ handleNext(arena, rendered).completed
  /\ NextClickSaving(FALSE)

\* the automatic completion of the session, with setItem throwing
AdvanceTimeoutSaveFails ==
  /\ mode = "app"
  /\ autoAdvance(arena, rendered).completed
  /\ AdvanceTimeoutSaving(FALSE)

\* the Quit click, with setItem throwing
QuitSaveFails == QuitSaving(FALSE)

QuotaNext ==
  \/ Next
  \/ NextClickSaveFails
  \/ AdvanceTimeoutSaveFails
  \/ QuitSaveFails

\* the program with a localStorage whose setItem may throw at any save
QuotaSpec == Init /\ [][QuotaNext]_vars

\* ---- the countdown on its own --------------------------------------------

\* a question shown with any time left, answered or not
TimerInit ==
  /\ mode = "standalone"
  /\ gameState = "undefined"
  /\ renderedGameState = gameState
  /\ \E T \in 1..QuestionTime, answered \in BOOLEAN :
       arena = [ArenaInit EXCEPT !.timeRemaining = T, !.isAnswered = answered]
  /\ rendered = arena
  /\ intervalDue = 0
  /\ toastDue = NoTimer
  /\ advanceDue = NoTimer
  /\ onCompleteCalls = 0
  /\ lastComplete = NoComplete
  /\ answeredCorrectly = {}
  /\ timedOut = {}
  /\ sessions = 1
  /\ lastEvent = "init"
  /\ stored = NoRecord
  /\ progress = stateOf(DEFAULT_USER_PROGRESS)
  /\ renderedProgress = progress
  /\ today = FirstDay
  /\ ticks = 0
  /\ questions = propQuestions
  /\ isLoadingQuestions = FALSE
  /\ usingFallbackData = FALSE
  /\ finalScore = 0
  /\ finalAccuracy = 0
  /\ rank = NoRank

\* the setInterval callback, applied once more to the current state
TimerTick ==
  /\ ticks < MaxTicks
  /\ arena' = timerTick(arena)
  /\ ticks' = ticks + 1
  /\ lastEvent' = IF arena.timeRemaining = 1 THEN "expiry" ELSE "tick"
  /\ UNCHANGED <<mode, listVars, gameState, renderedGameState, rendered, timerVars,
                 ghostVars, appVars, shownVars>>

TimerSpec == TimerInit /\ [][TimerTick]_vars

\* ---- calculateStreak on its own -----------------------------------------

\* a stored record with any streak and any last played date, read on any day
StreakInit ==
  /\ mode = "app"
  /\ gameState = "IDLE"
  /\ renderedGameState = gameState
  /\ arena = ArenaInit
  /\ rendered = ArenaInit
  /\ intervalDue = NoTimer
  /\ toastDue = NoTimer
  /\ advanceDue = NoTimer
  /\ onCompleteCalls = 0
  /\ lastComplete = NoComplete
  /\ answeredCorrectly = {}
  /\ timedOut = {}
  /\ sessions = 0
  /\ lastEvent = "init"
  /\ \E k \in 0..MaxStreak, d \in FirstDay..MaxDate :
       stored = saveUserProgress([userXP |-> 0, highScore |-> 0,
                                  currentStreak |-> k, lastPlayedDate |-> d])
  /\ progress = stateOf(loadUserProgress)
  /\ renderedProgress = progress
  /\ today \in FirstDay..MaxDate
  /\ ticks = 0
  /\ questions = NoQuestions
  /\ isLoadingQuestions = TRUE
  /\ usingFallbackData = FALSE
  /\ finalScore = 0
  /\ finalAccuracy = 0
  /\ rank = NoRank

\* calculateStreak(progress.lastPlayedDate, progress.currentStreak) on the
\* loaded record; the result is shown as the current streak
StreakCall ==
  /\ lastEvent = "init"
  /\ progress' = [progress EXCEPT !.currentStreak =
                    calculateStreak(loadUserProgress.lastPlayedDate,
                                    loadUserProgress.currentStreak)]
  /\ lastEvent' = "calculateStreak"
  /\ UNCHANGED <<mode, listVars, gameState, renderedGameState, arena, rendered, timerVars,
                 ghostVars, stored, renderedProgress, today, ticks, shownVars>>

StreakSpec == StreakInit /\ [][StreakCall]_vars

\* ---- loadUserProgress on whatever localStorage holds ----------------------

\* texts found under STORAGE_KEY: nothing, a text JSON.parse rejects, "null",
\* a primitive, and objects whose properties have the right type, another
\* type, or are missing
StoredTexts ==
  {NoRecord}
  \cup {<<JSONText(k)>> : k \in {"unparsable", "null", "primitive"}}
  \cup {<<[kind |-> "object", userXP |-> x, highScore |-> h,
           currentStreak |-> c, lastPlayedDate |-> d]>> :
          x \in {Num(PointsPerCorrect), Str(FirstDay), Undefined},
          h \in {Num(PointsPerCorrect), Undefined},
          c \in {Num(1), Str(FirstDay)},
          d \in {Str(FirstDay), Num(FirstDay), Undefined}}

\* App mounted on the day the module was loaded; its mount effect has set
\* userXP, highScore and currentStreak from loadUserProgress()
StorageInit ==
  /\ mode = "app"
  /\ gameState = "IDLE"
  /\ renderedGameState = gameState
  /\ arena = ArenaInit
  /\ rendered = ArenaInit
  /\ intervalDue = NoTimer
  /\ toastDue = NoTimer
  /\ advanceDue = NoTimer
  /\ onCompleteCalls = 0
  /\ lastComplete = NoComplete
  /\ answeredCorrectly = {}
  /\ timedOut = {}
  /\ sessions = 0
  /\ lastEvent = "init"
  /\ stored \in StoredTexts
  /\ progress = stateOf(loadUserProgress)
  /\ renderedProgress = progress
  /\ today = FirstDay
  /\ ticks = 0
  /\ questions = NoQuestions
  /\ isLoadingQuestions = TRUE
  /\ usingFallbackData = FALSE
  /\ finalScore = 0
  /\ finalAccuracy = 0
  /\ rank = NoRank

\* the player starts sessions and quits them at once, on the day the page was
\* opened or after midnight; handleQuit calls loadUserProgress()
StorageNext ==
  \/ FetchSucceeds
  \/ NextDay
  \/ StartQuiz
  \/ Quit

StorageSpec == StorageInit /\ [][StorageNext]_vars

\* ---- calculateRank on its own --------------------------------------------

\* a stand-alone session that has just completed with any score; the summary
\* card is about to be rendered
RankInit ==
  /\ mode = "standalone"
  /\ gameState = "undefined"
  /\ renderedGameState = gameState
  /\ \E s \in 0..MaxRankScore :
       arena = [ArenaInit EXCEPT !.score = s, !.internalIsComplete = TRUE]
  /\ rendered = ArenaInit
  /\ intervalDue = TickInterval
  /\ toastDue = NoTimer
  /\ advanceDue = NoTimer
  /\ onCompleteCalls = 1
  /\ lastComplete = NoComplete
  /\ answeredCorrectly = {}
  /\ timedOut = {}
  /\ sessions = 1
  /\ lastEvent = "init"
  /\ stored = NoRecord
  /\ progress = stateOf(DEFAULT_USER_PROGRESS)
  /\ renderedProgress = progress
  /\ today = FirstDay
  /\ ticks = 0
  /\ questions = propQuestions
  /\ isLoadingQuestions = FALSE
  /\ usingFallbackData = FALSE
  /\ finalScore = 0
  /\ finalAccuracy = 0
  /\ rank = NoRank

\* the render of the summary card calls calculateRank(displayScore)
RankSpec == RankInit /\ [][Render]_vars

\* the browser keeps running due timer callbacks, React keeps rendering, time
\* keeps passing; the user is under no obligation
FairSpec ==
  /\ Spec
  /\ WF_vars(Tick)
  /\ WF_vars(ToastTimeout)
  /\ WF_vars(AdvanceTimeout)
  /\ WF_vars(Render)
  /\ WF_vars(Elapse)

\* ---- a session left alone ------------------------------------------------

\* the questions are fetched and the session is started; from then on the
\* player touches nothing: only timer callbacks and renders run
UnattendedNext ==
  \/ FetchSucceeds
  \/ StartQuiz
  \/ Tick
  \/ ToastTimeout
  \/ AdvanceTimeout
  \/ Render
  \/ Elapse

\* the browser runs every due callback, React renders, time passes
UnattendedSpec ==
  /\ Init
  /\ [][UnattendedNext]_vars
  /\ WF_vars(Tick)
  /\ WF_vars(ToastTimeout)
  /\ WF_vars(AdvanceTimeout)
  /\ WF_vars(Render)
  /\ WF_vars(Elapse)

TypeOK ==
  /\ mode \in {"app", "standalone"}
  /\ gameState \in {"IDLE", "PLAYING", "FINISHED", "undefined"}
  /\ arena.timeRemaining \in 0..QuestionTime
  /\ arena.currentQuestionIndex \in 0..NumQuestions
  /\ intervalDue \in -1..TickInterval
  /\ toastDue \in -1..ToastDelay
  /\ advanceDue \in -1..TimeoutAdvanceDelay
  /\ today \in FirstDay..(MaxDay + 1)
  /\ progress.userXP >= 0
  /\ ticks \in 0..(MaxTicks + 1)

\* ---- vocabulary of the properties ---------------------------------------

SelectEvents == {"select", "selectIgnored"}
CompleteEvents == {"nextComplete", "autoComplete"}
AdvanceEvents == {"next", "autoAdvance"} \cup CompleteEvents
UserLifecycleEvents == {"next", "nextComplete", "quit", "tryAgain", "start"}

\* a session is being played (phase = Playing)
sessionLive ==
  IF mode = "app" THEN gameState = "PLAYING" ELSE ~arena.internalIsComplete

\* the current question was answered by the user and its countdown is at 0
expiredAfterAnswer ==
  /\ sessionLive
  /\ arena.timeRemaining = 0
  /\ arena.isAnswered
  /\ arena.selectedOption # NoOption

\* ---- C1 -----------------------------------------------------------------
\* C1: in every session onComplete is invoked exactly once, at the
\* Playing-to-Finished transition, never twice.
C1_OnCompleteExactlyOnce == onCompleteCalls <= 1

\* ---- C2 -----------------------------------------------------------------
\* C2: once a question has been answered by selectOption(o1), a further
\* selectOption(o2) on it leaves score, streak, correctCount,
\* selectedOptionId and isAnswered as they are.
C2_SingleAttempt ==
  [][(lastEvent' \in SelectEvents /\ rendered.selectedOption # NoOption)
       => /\ arena'.score = arena.score
          /\ arena'.streak = arena.streak
          /\ arena'.correctAnswers = arena.correctAnswers
          /\ arena'.selectedOption = arena.selectedOption
          /\ arena'.isAnswered = arena.isAnswered]_vars

C2_Witness ==
  /\ lastEvent = "selectIgnored"
  /\ rendered.selectedOption # NoOption
  /\ sessionLive

\* ---- C3 -----------------------------------------------------------------
\* C3: on an unanswered question, selecting the correct option adds exactly
\* 20 to score, 1 to correctCount and 1 to streak; selecting another option
\* leaves score and correctCount unchanged and sets streak to 0.
C3_ScoringCorrectness ==
  [][(lastEvent' = "select" /\ ~arena.isAnswered /\ sessionLive)
       => IF arena'.selectedOption = correctId(rendered.currentQuestionIndex)
          THEN /\ arena'.score = arena.score + 20
               /\ arena'.correctAnswers = arena.correctAnswers + 1
               /\ arena'.streak = arena.streak + 1
          ELSE /\ arena'.score = arena.score
               /\ arena'.correctAnswers = arena.correctAnswers
               /\ arena'.streak = 0]_vars

\* a wrong answer on the second question after a correct one on the first
C3_Witness ==
  /\ lastEvent = "select"
  /\ arena.currentQuestionIndex = 1
  /\ arena.score = 20
  /\ arena.streak = 0
  /\ arena.selectedOption # correctId(1)

\* ---- C4 -----------------------------------------------------------------
\* C4: onComplete receives score = 20 x (questions answered correctly) and
\* accuracy = (questions answered correctly) / N x 100, a timed-out question
\* counting as incorrect, from the Next handler and from the auto-advance.
C4_CompletionArguments ==
  [][(lastEvent' \in CompleteEvents)
       => /\ lastComplete'.score = 20 * Cardinality(answeredCorrectly \ timedOut)
          /\ lastComplete'.accuracy =
               (Cardinality(answeredCorrectly \ timedOut) * 10000) \div NumQuestions]_vars

\* ---- C5 -----------------------------------------------------------------
\* C5: currentIndex changes or the session completes, by the Next handler or
\* by an automatic advance, only when the current question is answered.
C5_AdvanceOnlyWhenAnswered ==
  [][(/\ lastEvent' \in AdvanceEvents
      /\ \/ arena'.currentQuestionIndex # arena.currentQuestionIndex
         \/ lastEvent' \in CompleteEvents)
       => arena.isAnswered]_vars

\* ---- C6 -----------------------------------------------------------------
\* C6: when the countdown reaches 0 on an unanswered question, the question
\* becomes answered with no selected option, streak becomes 0, and score and
\* correctCount are unchanged.
C6_TimeoutPenalty ==
  [][(lastEvent' = "expiry" /\ ~arena.isAnswered)
       => /\ arena'.isAnswered
          /\ arena'.selectedOption = NoOption
          /\ arena'.timeRemaining = 0
          /\ arena'.streak = 0
          /\ arena'.score = arena.score
          /\ arena'.correctAnswers = arena.correctAnswers]_vars

\* the second question times out after a correct answer to the first
C6_Witness ==
  /\ lastEvent = "expiry"
  /\ arena.showTimeoutToast
  /\ arena.selectedOption = NoOption
  /\ arena.score = 20
  /\ arena.streak = 0

\* ---- C7 -----------------------------------------------------------------
\* C7: after a question timed out unanswered the session eventually leaves
\* that question (next question, or Finished) with no user input needed.
C7_TimeoutEventuallyAdvances ==
  \A i \in 0..(NumQuestions - 1) :
    (arena.showTimeoutToast /\ arena.currentQuestionIndex = i /\ sessionLive)
      ~> (arena.currentQuestionIndex # i \/ ~sessionLive)

\* the auto-advance callback ran on a question that shows a timeout
C7_Witness ==
  /\ lastEvent = "autoAdvance"
  /\ rendered.isAnswered
  /\ rendered.selectedOption = NoOption
  /\ rendered.timeRemaining = 0
  /\ arena.currentQuestionIndex = rendered.currentQuestionIndex + 1

\* ---- C8 -----------------------------------------------------------------
\* C8 (as claimed): once the countdown is at 0 on a question the user had
\* answered, currentIndex and phase change only by an explicit advance.
C8_NoAdvanceAfterAnsweredExpiry ==
  [][(expiredAfterAnswer /\ lastEvent' \notin UserLifecycleEvents)
       => /\ arena'.currentQuestionIndex = arena.currentQuestionIndex
          /\ arena'.internalIsComplete = arena.internalIsComplete
          /\ gameState' = gameState]_vars

\* C8 (amended): the expiry on a question the user had answered changes
\* neither currentIndex nor phase itself but requests an automatic advance;
\* afterwards currentIndex and phase change only by that automatic advance
\* or by an explicit advance.
C8_AnsweredExpiryRequestsAutoAdvance ==
  [][/\ (lastEvent' = "expiry" /\ arena.isAnswered
           /\ arena.selectedOption # NoOption /\ sessionLive)
          => /\ arena'.shouldAutoAdvance
             /\ arena'.currentQuestionIndex = arena.currentQuestionIndex
             /\ arena'.internalIsComplete = arena.internalIsComplete
             /\ gameState' = gameState
     /\ (expiredAfterAnswer
           /\ lastEvent' \notin UserLifecycleEvents \cup {"autoAdvance", "autoComplete"})
          => /\ arena'.currentQuestionIndex = arena.currentQuestionIndex
             /\ arena'.internalIsComplete = arena.internalIsComplete
             /\ gameState' = gameState]_vars

\* the countdown just expired on a question answered by a selection
C8_Witness ==
  /\ lastEvent = "expiry"
  /\ arena.shouldAutoAdvance
  /\ arena.selectedOption # NoOption
  /\ sessionLive

\* ---- C9 -----------------------------------------------------------------
\* C9: the countdown reaching 0 on an already answered question reapplies no
\* penalty: score, correctCount, streak and selectedOptionId are unchanged.
C9_NoPenaltyAfterAnswer ==
  [][(lastEvent' = "expiry" /\ arena.isAnswered)
       => /\ arena'.score = arena.score
          /\ arena'.correctAnswers = arena.correctAnswers
          /\ arena'.streak = arena.streak
          /\ arena'.selectedOption = arena.selectedOption
          /\ arena'.isAnswered]_vars

\* the countdown expired on a correctly answered question, streak kept
C9_Witness ==
  /\ lastEvent = "expiry"
  /\ arena.selectedOption = correctId(arena.currentQuestionIndex)
  /\ arena.streak = 1
  /\ arena.score = 20
  /\ arena.timeRemaining = 0

\* ---- C10 ----------------------------------------------------------------
\* C10: first writer wins between a selection and the expiring tick: after
\* the selection the expiry changes nothing in score, streak or
\* selectedOptionId; after the expiry the question is a timeout and the
\* selection is a no-op.
C10_FirstWriterWins ==
  [][/\ (lastEvent' = "expiry" /\ arena.isAnswered /\ arena.selectedOption # NoOption)
          => /\ arena'.score = arena.score
             /\ arena'.streak = arena.streak
             /\ arena'.selectedOption = arena.selectedOption
     /\ (lastEvent' \in SelectEvents /\ sessionLive
           /\ arena.isAnswered /\ arena.selectedOption = NoOption)
          => /\ arena'.score = arena.score
             /\ arena'.streak = arena.streak
             /\ arena'.selectedOption = NoOption]_vars

\* ---- C11 ----------------------------------------------------------------
\* the phase of the session: App's gameState, or, stand-alone, Finished once
\* the component shows its summary
phase ==
  IF mode = "app" THEN gameState
  ELSE IF arena.internalIsComplete THEN "FINISHED" ELSE "PLAYING"

\* C11: once Finished has been reached, a further advance (a Next click,
\* duplicate or not) neither invokes onComplete again nor changes the
\* reported score and accuracy.
C11_IdempotentAdvancePastEnd ==
  [][(/\ phase = "FINISHED"
      /\ onCompleteCalls >= 1
      /\ lastEvent' \in {"next", "nextComplete", "nextIgnored"})
       => /\ onCompleteCalls' = onCompleteCalls
          /\ lastComplete' = lastComplete]_vars

\* ---- C12 ----------------------------------------------------------------
\* the countdown interval is installed
timerActive == intervalDue # NoTimer

\* C12: the countdown timer is active exactly while the session is in
\* Playing, and no tick is applied to a session that is finished or
\* discarded.
C12_TimerOnlyWhilePlaying ==
  /\ [](~renderPending => (timerActive <=> phase = "PLAYING"))
  /\ [][(lastEvent' \in {"tick", "expiry"}) => phase = "PLAYING"]_vars

C14_AnsweredIsMonotonic ==
  [][(phase = "PLAYING" /\ arena.isAnswered /\ ~arena'.isAnswered)
       => \/ arena'.currentQuestionIndex = arena.currentQuestionIndex + 1
          \/ phase' # "PLAYING"]_vars

\* an answered question outlived a tick and the expiry of its countdown
C14_Witness ==
  /\ lastEvent = "expiry"
  /\ arena.isAnswered
  /\ arena.selectedOption # NoOption
  /\ arena.currentQuestionIndex = 0
  /\ phase = "PLAYING"

\* ---- C15 ----------------------------------------------------------------
\* C15: an advance from an answered question that is not the last one sets
\* currentIndex + 1, no selected option, isAnswered false and the timer 30,
\* and leaves score, streak and correctCount unchanged.
C15_AdvanceFrame ==
  [][(/\ lastEvent' \in {"next", "autoAdvance"}
      /\ phase = "PLAYING"
      /\ arena.isAnswered
      /\ arena.currentQuestionIndex < NumQuestions - 1)
       => /\ arena'.currentQuestionIndex = arena.currentQuestionIndex + 1
          /\ arena'.selectedOption = NoOption
          /\ ~arena'.isAnswered
          /\ arena'.timeRemaining = QuestionTime
          /\ arena'.score = arena.score
          /\ arena'.streak = arena.streak
          /\ arena'.correctAnswers = arena.correctAnswers]_vars

\* a Next click carried a score and a streak over to the second question
C15_Witness ==
  /\ lastEvent = "next"
  /\ arena.currentQuestionIndex = 1
  /\ arena.score = 20
  /\ arena.streak = 1
  /\ arena.timeRemaining = QuestionTime
  /\ ~arena.isAnswered

\* ---- C16 ----------------------------------------------------------------
\* C16: every transition into Playing yields a fresh session: counters 0,
\* first question, nothing selected, not answered, timer 30, and no pending
\* timeout toast or auto-advance.
C16_FreshSessionOnStart ==
  [][(phase # "PLAYING" /\ phase' = "PLAYING")
       => /\ arena' = ArenaInit
          /\ toastDue' = NoTimer
          /\ advanceDue' = NoTimer]_vars

\* ---- C17 ----------------------------------------------------------------
\* the edges of the outer lifecycle; stand-alone, Try Again goes through Idle
\* and starts at once
PhaseEdges ==
  {<<"IDLE", "PLAYING">>, <<"PLAYING", "FINISHED">>,
   <<"PLAYING", "IDLE">>, <<"FINISHED", "IDLE">>}

\* C17: the phase changes only along Idle->Playing, Playing->Finished,
\* Playing->Idle and Finished->Idle, and a finished session is never
\* completed anew.
C17_PhaseEdges ==
  [][/\ (phase' # phase)
          => \/ <<phase, phase'>> \in PhaseEdges
             \/ (mode = "standalone" /\ lastEvent' = "tryAgain")
     /\ (phase = "FINISHED") => lastEvent' \notin CompleteEvents]_vars

\* ---- C18 ----------------------------------------------------------------
Max(a, b) == IF a >= b THEN a ELSE b

\* C18: from any start time T in 1..30, after t ticks the time shown is
\* max(0, T - t); it is never negative and never above 30.
C18_TimerClampedCountdown ==
  /\ arena.timeRemaining = Max(0, rendered.timeRemaining - ticks)
  /\ arena.timeRemaining >= 0
  /\ arena.timeRemaining <= 30

\* ticks went on after the countdown had reached 0
C18_Witness ==
  /\ ticks > rendered.timeRemaining
  /\ rendered.timeRemaining >= 1
  /\ arena.timeRemaining = 0

C20_CompletionUpdatesProgress ==
  [][(/\ lastEvent' \in CompleteEvents
      /\ mode = "app"
      /\ phase = "PLAYING"
      /\ onCompleteCalls = 0)
       => loadUserProgress' =
            [userXP |-> loadUserProgress.userXP + lastComplete'.score,
             highScore |-> Max(loadUserProgress.highScore, lastComplete'.score),
             currentStreak |-> calculateStreak(loadUserProgress.lastPlayedDate,
                                               loadUserProgress.currentStreak),
             lastPlayedDate |-> today]]_vars

\* a session completed below the high score on the day after the last one
C20_Witness ==
  /\ lastEvent \in CompleteEvents
  /\ mode = "app"
  /\ lastComplete.score < loadUserProgress.highScore
  /\ loadUserProgress.lastPlayedDate = today
  /\ today > FirstDay
  /\ loadUserProgress.currentStreak = 1


\* C21: calculateStreak returns the current streak when the last played date
\* is today, the current streak plus one when today is exactly one day after
\* it, and 1 for every other pair of dates (a gap of two days or more, or a
\* last played date later than today)
C21_StreakRule ==
  lastEvent = "calculateStreak" =>
    LET k == loadUserProgress.currentStreak
        d == loadUserProgress.lastPlayedDate
    IN  progress.currentStreak =
          CASE d = today -> k
            [] d + 1 = today -> k + 1
            [] OTHER -> 1

\* a streak of several days read on a day before the last played date
C21_Witness ==
  /\ lastEvent = "calculateStreak"
  /\ loadUserProgress.lastPlayedDate > today
  /\ loadUserProgress.currentStreak > 1
  /\ progress.currentStreak = 1


\* C27: the rank of a score is Cadet when the score is below 50, Captain when
\* it is between 50 and 80 inclusive, Grandmaster when it is above 80; every
\* score has exactly one of the three ranks
C27_RankThresholds ==
  rank # NoRank =>
    LET s == rendered.score IN
    /\ rank \in {"Cadet Logika", "Captain Nalar", "Grandmaster"}
    /\ (rank = "Cadet Logika") <=> (s < 50)
    /\ (rank = "Captain Nalar") <=> (50 <= s /\ s <= 80)
    /\ (rank = "Grandmaster") <=> (s > 80)

\* the summary card of a score of exactly 50 shows Captain
C27_Witness ==
  /\ rendered.internalIsComplete
  /\ rendered.score = 50
  /\ rank = "Captain Nalar"


\* C26: loadUserProgress returns the default progress (0 XP, high score 0,
\* streak 0, last played today) whenever the stored record is absent,
\* unparsable or has a property of the wrong type, and the stored record
\* unchanged otherwise; seen in what App shows after its mount effect and in
\* the record handleQuit writes back, which is the loaded record with only
\* userXP replaced
wellTyped(t) ==
  /\ t.kind = "object"
  /\ t.userXP.type = "number" /\ t.highScore.type = "number"
  /\ t.currentStreak.type = "number" /\ t.lastPlayedDate.type = "string"

expectedLoad(st, day) ==
  IF st # NoRecord /\ wellTyped(st[1])
  THEN [userXP |-> st[1].userXP.value, highScore |-> st[1].highScore.value,
        currentStreak |-> st[1].currentStreak.value,
        lastPlayedDate |-> st[1].lastPlayedDate.value]
  ELSE [userXP |-> 0, highScore |-> 0, currentStreak |-> 0,
        lastPlayedDate |-> day]

C26_LoadReturnsStoredOrTodayDefault ==
  /\ [](lastEvent = "init" =>
         /\ progress.userXP = expectedLoad(stored, today).userXP
         /\ progress.highScore = expectedLoad(stored, today).highScore
         /\ progress.currentStreak = expectedLoad(stored, today).currentStreak)
  /\ [][lastEvent' = "quit" =>
         stored' = <<stringify([expectedLoad(stored, today) EXCEPT
                                 !.userXP = progress'.userXP])>>]_vars


\* C22: a start with an empty question list is rejected: the game never is in
\* PLAYING with a list of length 0
C22_NoPlayingOnEmptyList ==
  ~(gameState = "PLAYING" /\ questions.length = 0)

heldScore == IF mode = "app" THEN finalScore ELSE arena.score
heldAccuracy ==
  IF mode = "app" THEN finalAccuracy ELSE accuracyOf(arena.correctAnswers)

\* C23: while the phase is FINISHED the final score and accuracy held by the
\* session are the values passed to onComplete, and no event changes them
\* until Play Again
C23_FinishedSnapshot ==
  /\ [](phase = "FINISHED" =>
          /\ heldScore = lastComplete.score
          /\ heldAccuracy = lastComplete.accuracy)
  /\ [][phase = "FINISHED" /\ phase' = "FINISHED" =>
          /\ heldScore' = heldScore
          /\ heldAccuracy' = heldAccuracy]_vars


\* C24: a selection in a session that is being played changes neither the
\* countdown nor the question index: timeRemaining and currentQuestionIndex
\* are the same right after it, and the interval timer is neither stopped
\* nor restarted
C24_SelectionFrame ==
  [][lastEvent' \in SelectEvents /\ phase = "PLAYING" =>
       /\ arena'.timeRemaining = arena.timeRemaining
       /\ arena'.currentQuestionIndex = arena.currentQuestionIndex
       /\ intervalDue' = intervalDue
       /\ intervalDue' # NoTimer]_vars

\* a selection was accepted after the countdown had run for a while
C24_Witness ==
  /\ lastEvent = "select"
  /\ arena.isAnswered
  /\ arena.selectedOption # NoOption
  /\ arena.timeRemaining \in 1..(QuestionTime - 1)
  /\ intervalDue # NoTimer

\* C30: in every reachable state the score is 20 times the number of correct
\* answers, in the current state and in the state the handlers of the
\* committed render read, also when a selection runs against a render that
\* a timer callback has made stale
C30_ScoreIsTwentyPerCorrect ==
  /\ arena.score = 20 * arena.correctAnswers
  /\ rendered.score = 20 * rendered.correctAnswers

\* a correct selection was accepted from the render that preceded the expiry
\* of the same question
C30_Witness ==
  /\ lastEvent = "select"
  /\ arena.currentQuestionIndex \in timedOut
  /\ arena.currentQuestionIndex \in answeredCorrectly
  /\ arena.timeRemaining = 0
  /\ arena.correctAnswers >= 1
  /\ arena.score = 20 * arena.correctAnswers


\* C28: an automatic advance (or automatic completion) leaves only a question
\* whose own countdown has expired: it never leaves a question that still
\* has time remaining
C28_AutoAdvanceOnlyAfterOwnExpiry ==
  [][lastEvent' \in {"autoAdvance", "autoComplete"} =>
       arena.timeRemaining = 0]_vars


\* C29: the score of a session is credited to the persisted userXP at most
\* once: a handler that credits a session already completed leaves the
\* stored record as it is, a session that was completed is not also quit,
\* and nothing but a completion or a quit writes the stored progress
C29_CreditedAtMostOnce ==
  /\ [][mode = "app" /\ onCompleteCalls > 0
         /\ lastEvent' \in (CompleteEvents \cup {"quit"})
         => stored' = stored]_vars
  /\ [][lastEvent' = "quit" => onCompleteCalls = 0]_vars
  /\ [][lastEvent' \notin (CompleteEvents \cup {"quit"}) => stored' = stored]_vars

\* C31: in every reachable state 0 <= streak <= correctCount <= number of
\* questions answered so far <= len(questions): correctCount is at most the
\* number of questions on which a correct selection was accepted, every
\* question answered (by a selection or by its timeout) is one of the
\* questions up to currentIndex, and currentIndex is below len(questions); so
\* score never exceeds 20 x len(questions), and the accuracy passed to
\* onComplete lies between 0 and 100 percent
C31_CountersOrdered ==
  /\ \A s \in {arena, rendered} :
       /\ 0 <= s.streak
       /\ s.streak <= s.correctAnswers
       /\ s.correctAnswers <= Cardinality(answeredCorrectly)
       /\ s.score <= 20 * questions.length
  /\ phase = "PLAYING" =>
       (answeredCorrectly \cup timedOut) \subseteq 0..arena.currentQuestionIndex
  /\ Cardinality(answeredCorrectly \cup timedOut) <= questions.length
  /\ phase # "IDLE" => arena.currentQuestionIndex < questions.length
  /\ lastComplete # NoComplete =>
       /\ lastComplete.score <= 20 * questions.length
       /\ lastComplete.accuracy >= 0
       /\ lastComplete.accuracy <= 10000

\* a session completed with one correct answer followed by a wrong one
C31_Witness ==
  /\ lastEvent \in CompleteEvents
  /\ mode = "standalone"
  /\ arena.streak = 0
  /\ arena.correctAnswers = 1
  /\ Cardinality(answeredCorrectly) = 1
  /\ lastComplete.accuracy = accuracyOf(1)
  /\ lastComplete.accuracy > 0

\* C32: a session that is being played and receives no user input eventually
\* is Finished with onComplete invoked once, with score 0 and accuracy 0;
\* every automatic advance leaves a question whose countdown expired
\* unanswered, all questions have timed out when the session is Finished,
\* and no question is shown forever
C32_UnattendedSessionFinishes ==
  /\ (phase = "PLAYING" /\ sessions >= 1)
       ~> (phase = "FINISHED" /\ onCompleteCalls = 1
             /\ lastComplete = [score |-> 0, accuracy |-> 0])
  /\ \A i \in 0..(NumQuestions - 1) :
       (phase = "PLAYING" /\ sessions >= 1 /\ arena.currentQuestionIndex = i)
         ~> (phase = "FINISHED" \/ arena.currentQuestionIndex = i + 1)
  /\ [][lastEvent' \in {"autoAdvance", "autoComplete"} =>
         /\ arena.currentQuestionIndex \in timedOut
         /\ arena.timeRemaining = 0
         /\ arena.selectedOption = NoOption]_vars
  /\ [](phase = "FINISHED" =>
         /\ timedOut = 0..(questions.length - 1)
         /\ answeredCorrectly = {})

\* the last question of an untouched session timed out and completed it
C32_Witness ==
  /\ lastEvent = "autoComplete"
  /\ phase = "FINISHED"
  /\ mode = "app"
  /\ timedOut = 0..(questions.length - 1)
  /\ answeredCorrectly = {}
  /\ lastComplete = [score |-> 0, accuracy |-> 0]
  /\ finalScore = 0

C34_CompletedSessionCountsAsDay ==
  [][lastEvent' \in CompleteEvents /\ mode = "app" =>
       loadUserProgress'.currentStreak >= 1]_vars

\* C35: while the phase is PLAYING a countdown at 0 means the question is
\* answered, and a question whose countdown is at 0 accepts no selection
C35_ExpiredQuestionIsLocked ==
  /\ [](phase = "PLAYING" /\ arena.timeRemaining = 0 => arena.isAnswered)
  /\ [][phase = "PLAYING" /\ arena.timeRemaining = 0 =>
         lastEvent' # "select"]_vars

\* C36: in every reachable state a selected option implies isAnswered; a
\* selection in a session that is being played is recorded on the question it was made on and scored against
\* (the question the handler read is the question at currentIndex once the
\* selection is set), and no selection is carried to another question: a
\* change of currentIndex leaves no option selected
C36_SelectionBelongsToCurrentQuestion ==
  /\ [](arena.selectedOption # NoOption => arena.isAnswered)
  /\ [](rendered.selectedOption # NoOption => rendered.isAnswered)
  /\ [][lastEvent' = "select" /\ phase' = "PLAYING" =>
         arena'.currentQuestionIndex = rendered.currentQuestionIndex]_vars
  /\ [][arena'.currentQuestionIndex # arena.currentQuestionIndex =>
         arena'.selectedOption = NoOption]_vars

C38_FailingSaveDoesNotBlock ==
  /\ [][(/\ lastEvent' \in CompleteEvents
         /\ mode = "app"
         /\ stored' # saveUserProgress(completedProgress(lastComplete'.score)))
          => /\ stored' = stored
             /\ gameState' = "FINISHED"
             /\ progress' = stateOf(completedProgress(lastComplete'.score))
             /\ finalScore' = lastComplete'.score
             /\ finalAccuracy' = lastComplete'.accuracy]_vars
  /\ [][(/\ lastEvent' = "quit"
         /\ stored' # saveUserProgress(quitProgress(currentScore)))
          => /\ stored' = stored
             /\ gameState' = "IDLE"
             /\ renderedGameState' = "IDLE"
             /\ progress' = [progress EXCEPT
                               !.userXP = renderedProgress.userXP + currentScore]]_vars

\* a first session completed with points while nothing could be stored
C38_Witness ==
  /\ lastEvent \in CompleteEvents
  /\ mode = "app"
  /\ gameState = "FINISHED"
  /\ stored = NoRecord
  /\ lastComplete.score > 0
  /\ progress.userXP = lastComplete.score
  /\ progress.highScore = lastComplete.score

====
